---- MODULE Spec2Model ----
\* Training progression engine of the AI coach: the trainees (User rows), their
\* UserTraining rows, the Message log and the course catalog, with the
\* operations that read and write them (TrainingService, TrainingBatchService,
\* PushService, the dashboard routes).
EXTENDS Integers, Sequences, FiniteSets, TLC

\* ---------------------------------------------------------------- constants
MAX_TRAINING_DAY == 14

HistoryLimit == 10

\* max_rounds of the scenario of day 1 (read only to build the prompt).
max_rounds == 5

\* ------------------------------------------------------------------- bounds
\* Highest value of the clock: every operation that reads the clock (a message
\* insert, the start of an attempt) takes one tick, so this bounds the length
\* of the message log as well.
MaxTime == 4

\* None in a text column, and None in a number or time column.
NULL == "null"

None == 0 - 1

\* Spec follows one trainee enrolled in one batch.
Users == {1}

Batches == {1}

\* Days an administrator enters in the dashboard forms (new_day, send_day, day).
AdminDays == {MAX_TRAINING_DAY - 1, MAX_TRAINING_DAY + 1}

\* Persona letters an administrator enters in the send-any-training form.
AdminPersonas == {"A"}

\* Days an administrator picks for an ad-hoc test.
ManualDays == {0, 1, MAX_TRAINING_DAY + 1}

VARIABLES
    trainings,   \* the UserTraining table, in creation order (row number = id)
    users,       \* the User table: the legacy progress columns of each trainee
    messages,    \* the Message table (conversation log), in insertion order
    courses,     \* the Course table of the course version: day -> type
    now,         \* the clock
    result,      \* what the last call of process_training returned
    horizon,     \* the last value of the clock in the run that is followed
    log_order,   \* the order in which the log query returns the rows
    loop,        \* the requests the web server is handling
    parse,       \* the raw answer of the language model and what it parses to
    push_result  \* what the last call of the push service returned

vars == <<trainings, users, messages, courses, now, result,
          horizon, log_order, loop, parse, push_result>>

\* What an operation of the engine or of the dashboard never writes.
surroundings == <<horizon, log_order, loop, parse, push_result>>

\* ------------------------------------------------------------ data model
TrainingStatus == {"pending", "active", "paused", "completed"}

\* Persona.A_NO_EXPERIENCE and Persona.B_HAS_EXPERIENCE (the stored strings,
\* written here in ASCII).
Persona == {"A_no_experience", "B_has_experience"}

\* A new UserTraining row as add_user_to_batch builds it; testing_day and
\* attempt_started_at are the two columns the migration adds.
UserTraining(u, b, auto_start) ==
    [user_id            |-> u,
     batch_id           |-> b,
     current_day        |-> 0,
     current_round      |-> 0,
     status             |-> IF auto_start THEN "active" ELSE "pending",
     persona            |-> NULL,
     testing_day        |-> None,
     attempt_started_at |-> None]

\* A new User row as create_user builds it.
User == [current_day |-> 0, current_round |-> 0, persona |-> NULL]

\* A Message row (the texts, the score and the reason are left out).
Message(u, training_day, created_at) ==
    [user_id |-> u, training_day |-> training_day, created_at |-> created_at]

\* ------------------------------------------------------------ the catalog
\* DAYS_DATA: day 0 is teaching, days 1..13 are exams, day 14 the final exam.
get_day_data(day) ==
    IF day = 0 THEN "teaching"
    ELSE IF day \in 1..(MAX_TRAINING_DAY - 1) THEN "exam"
    ELSE IF day = MAX_TRAINING_DAY THEN "final_exam"
    ELSE NULL

\* The Course table is empty (only the static data answers).
EmptyCourses == [d \in {} |-> NULL]

\* The Course table after seed_courses and one added day (max day + 1).
SeededCourses ==
    [d \in 0..(MAX_TRAINING_DAY + 1) |-> IF d = 0 THEN "teaching" ELSE "assessment"]

\* get_course_data: the Course table first, the static data as fallback.
get_course_data(day) ==
    IF day \in DOMAIN courses THEN courses[day] ELSE get_day_data(day)

\* ------------------------------------------------------- progress accessors
\* user.trainings is ordered newest first; the first active row is returned
\* (0: the trainee has no active row).
\* Variant for C9: the newest row of the trainee whatever its status.
get_active_training_any_status(u) ==
    IF \E i \in DOMAIN trainings : trainings[i].user_id = u
    THEN CHOOSE i \in DOMAIN trainings :
            /\ trainings[i].user_id = u
            /\ \A j \in DOMAIN trainings : trainings[j].user_id = u => j <= i
    ELSE 0

get_active_training(u) ==
    IF \E i \in DOMAIN trainings :
            trainings[i].user_id = u /\ trainings[i].status = "active"
    THEN CHOOSE i \in DOMAIN trainings :
            /\ trainings[i].user_id = u /\ trainings[i].status = "active"
            /\ \A j \in DOMAIN trainings :
                   trainings[j].user_id = u /\ trainings[j].status = "active"
                       => j <= i
    ELSE 0

get_training_day(u) ==
    IF get_active_training(u) # 0
    THEN trainings[get_active_training(u)].current_day
    ELSE users[u].current_day

get_testing_day(u) ==
    IF get_active_training(u) # 0
    THEN IF trainings[get_active_training(u)].testing_day # None
         THEN trainings[get_active_training(u)].testing_day
         ELSE trainings[get_active_training(u)].current_day
    ELSE users[u].current_day

\* Variant for C2: a day sent by hand is not told from the official day.
is_manual_test_never(u) == FALSE

is_manual_test(u) ==
    IF /\ get_active_training(u) # 0
       /\ trainings[get_active_training(u)].testing_day # None
    THEN trainings[get_active_training(u)].testing_day
             # trainings[get_active_training(u)].current_day
    ELSE FALSE

get_training_round(u) ==
    IF get_active_training(u) # 0
    THEN trainings[get_active_training(u)].current_round
    ELSE users[u].current_round

get_training_persona(u) ==
    IF /\ get_active_training(u) # 0
       /\ trainings[get_active_training(u)].persona # NULL
    THEN trainings[get_active_training(u)].persona
    ELSE users[u].persona

\* "A" if "A" in persona else "B"; "A" when no persona is stored.
get_persona_letter(u) ==
    IF get_training_persona(u) = NULL THEN "A"
    ELSE IF get_training_persona(u) \in {"A_no_experience", "A_experience"}
         THEN "A" ELSE "B"

\* Variant for C19: the watermark of the attempt is not read.
get_attempt_started_at_unset(u) == None

get_attempt_started_at(u) ==
    IF get_active_training(u) # 0
    THEN trainings[get_active_training(u)].attempt_started_at
    ELSE None

\* ------------------------------------------------- the conversation history
\* The Message rows of a trainee and a day written at or after the watermark,
\* oldest first (every row of the day when there is no watermark); the result
\* is the list of row numbers.
RECURSIVE SelectRows(_, _, _, _)
SelectRows(i, u, day, attempt_started_at) ==
    IF i > Len(messages) THEN <<>>
    ELSE IF /\ messages[i].user_id = u
            /\ messages[i].training_day = day
            /\ (attempt_started_at = None
                    \/ messages[i].created_at >= attempt_started_at)
         THEN <<i>> \o SelectRows(i + 1, u, day, attempt_started_at)
         ELSE SelectRows(i + 1, u, day, attempt_started_at)

\* reversed(s)
Reversed(s) == [i \in 1..Len(s) |-> s[Len(s) + 1 - i]]

\* The query returns the rows newest first or oldest first (log_order).
get_current_attempt_messages(u, day, attempt_started_at) ==
    IF log_order = "newest_first"
    THEN Reversed(SelectRows(1, u, day, attempt_started_at))
    ELSE SelectRows(1, u, day, attempt_started_at)

\* s[-limit:]
LastN(s, limit) ==
    IF Len(s) <= limit THEN s ELSE SubSeq(s, Len(s) - limit + 1, Len(s))

\* Each row gives its user message, then its AI reply.
RECURSIVE ToHistory(_)
ToHistory(rows) ==
    IF rows = <<>> THEN <<>>
    ELSE <<[role |-> "user", msg |-> Head(rows)],
           [role |-> "assistant", msg |-> Head(rows)]>> \o ToHistory(Tail(rows))

\* Variant for C4: the turns of the day, whatever attempt they belong to.
get_conversation_history_whole_day(u) ==
    ToHistory(Reversed(LastN(
        get_current_attempt_messages(u, get_testing_day(u), None),
        HistoryLimit)))

get_conversation_history(u) ==
    ToHistory(Reversed(LastN(
        get_current_attempt_messages(u, get_testing_day(u), get_attempt_started_at(u)),
        HistoryLimit)))

\* get_progress_summary: the day, round and persona the accessors resolve, the
\* status of the active training ("none" without one) and is_completed.
get_progress_summary(u) ==
    [current_day     |-> get_training_day(u),
     current_round   |-> get_training_round(u),
     persona         |-> get_training_persona(u),
     is_completed    |-> get_training_day(u) > MAX_TRAINING_DAY,
     training_status |-> IF get_active_training(u) # 0
                         THEN trainings[get_active_training(u)].status
                         ELSE "none"]

\* ------------------------------------------------------- progress writers
\* Each takes and returns the pair of the UserTraining table and the User row
\* of the trainee; t is the active training (0: none, the User row is written
\* instead).
\* Variant for C1: the day written is one past the day asked for.
update_progress_skips_a_day(s, t, new_day) ==
    IF t # 0 THEN [s EXCEPT !.tr[t].current_day = new_day + 1]
    ELSE [s EXCEPT !.usr.current_day = new_day + 1]

\* Variant for C21: a pass leaves the day where it was.
update_progress_stays(s, t, new_day) == s

update_progress(s, t, new_day) ==
    IF t # 0 THEN [s EXCEPT !.tr[t].current_day = new_day]
    ELSE [s EXCEPT !.usr.current_day = new_day]

\* Variant for C16: a persona is drawn again with every round.
update_round_redraws(s, t, round_count) ==
    IF t # 0 THEN [s EXCEPT !.tr[t].current_round = round_count,
                            !.tr[t].persona = "B_has_experience"]
    ELSE [s EXCEPT !.usr.current_round = round_count]

\* Variant for C12: the round is left as it is.
update_round_keeps(s, t, round_count) == s

\* Variant for C27: the round stored never passes the ceiling of the scenario.
update_round_capped(s, t, round_count) ==
    IF t # 0
    THEN [s EXCEPT !.tr[t].current_round =
                       IF round_count > max_rounds THEN max_rounds ELSE round_count]
    ELSE [s EXCEPT !.usr.current_round = round_count]

update_round(s, t, round_count) ==
    IF t # 0 THEN [s EXCEPT !.tr[t].current_round = round_count]
    ELSE [s EXCEPT !.usr.current_round = round_count]

\* Variant for C5: the round is left as it is.
reset_round_keeps(s, t) == s

reset_round(s, t) ==
    IF t # 0 THEN [s EXCEPT !.tr[t].current_round = 0]
    ELSE [s EXCEPT !.usr.current_round = 0]

\* Variant for C7: the day under test is left as it is.
clear_testing_day_keeps(s, t) == s

clear_testing_day(s, t) ==
    IF t # 0 THEN [s EXCEPT !.tr[t].testing_day = None] ELSE s

\* Variant for C8: the status is left as it is.
mark_completed_keeps(s, t) == s

\* active_training.status = COMPLETED, when there is an active training.
mark_completed(s, t) ==
    IF t # 0 THEN [s EXCEPT !.tr[t].status = "completed"] ELSE s

\* ------------------------------------------------------------- the oracle
\* What the language model's answer parses to, or the call raising.
OracleOutcomes ==
    [raises : {FALSE}, is_final : BOOLEAN, pass_ : BOOLEAN]
        \cup {[raises |-> TRUE, is_final |-> FALSE, pass_ |-> FALSE]}

\* generate_response reads the static data only: an unknown day is a final
\* fail, a teaching day a final pass, both without calling the model; the
\* model is called for every other day.
\* Variant for C14: no day is graded by the language model.
calls_oracle_never(day) == FALSE

calls_oracle(day) == get_day_data(day) \notin {NULL, "teaching"}

generate_response(day, oracle) ==
    IF get_day_data(day) = NULL THEN [is_final |-> TRUE, pass_ |-> FALSE]
    ELSE IF get_day_data(day) = "teaching" THEN [is_final |-> TRUE, pass_ |-> TRUE]
    ELSE [is_final |-> oracle.is_final, pass_ |-> oracle.pass_]

\* ------------------------------------------------------------ the results
\* The TrainingResult of a call of process_training with its AIResponse, and
\* with it the trainee, the training row that was read (0: none), the branch
\* that answered and whether the language model was called.
TrainingResult(u, t, outcome, ai, current_day, next_day, is_completed, round_count, oracle_called) ==
    [op |-> "process_training", user_id |-> u, training |-> t,
     outcome |-> outcome,
     is_final |-> ai.is_final, pass_ |-> ai.pass_,
     current_day |-> current_day, next_day |-> next_day,
     is_completed |-> is_completed, round_count |-> round_count,
     oracle_called |-> oracle_called]

\* The value of result after any other operation.
NoResult ==
    [op |-> "other", user_id |-> 0, training |-> 0, outcome |-> "none",
     is_final |-> FALSE, pass_ |-> FALSE, current_day |-> 0, next_day |-> 0,
     is_completed |-> FALSE, round_count |-> 0, oracle_called |-> FALSE]

\* ------------------------------------------------------- process_training
\* Variant for C6: a final fail ends a manual test as a final pass does.
advance_fail_clears(s, t, ai, current_day, manual) ==
    IF ai.is_final
    THEN IF ai.pass_
         THEN IF manual
              THEN clear_testing_day(reset_round(s, t), t)
              ELSE IF current_day < MAX_TRAINING_DAY
                   THEN clear_testing_day(
                            reset_round(update_progress(s, t, current_day + 1), t), t)
                   ELSE mark_completed(clear_testing_day(s, t), t)
         ELSE clear_testing_day(reset_round(s, t), t)
    ELSE s

\* The rule applied after the exchange is saved and the round is stored.
advance(s, t, ai, current_day, manual) ==
    IF ai.is_final
    THEN IF ai.pass_
         THEN IF manual
              THEN clear_testing_day(reset_round(s, t), t)
              ELSE IF current_day < MAX_TRAINING_DAY
                   THEN clear_testing_day(
                            reset_round(update_progress(s, t, current_day + 1), t), t)
                   ELSE mark_completed(clear_testing_day(s, t), t)
         ELSE reset_round(s, t)
    ELSE s

\* Variant for C11: a teaching day never moves the progress on.
advance_teaching_stays(s, t, current_day, manual) ==
    clear_testing_day(reset_round(s, t), t)

\* The rule of a teaching day: the progress moves on unless the day was sent
\* by hand.
advance_teaching(s, t, current_day, manual) ==
    IF ~manual
    THEN clear_testing_day(reset_round(update_progress(s, t, current_day + 1), t), t)
    ELSE clear_testing_day(reset_round(s, t), t)

\* Each write is a commit of its own (save_message, then every progress
\* writer): the commit that follows the insert of the turn succeeds, or it
\* raises (the connection is lost, the request is killed) and the handler
\* ends there with the turn already committed.
CommitOutcomes == {"commits", "fails"}

\* Variant for C13: the turn is tagged with the official day.
save_message_official_day(u, training_day) ==
    /\ now < horizon
    /\ now' = now + 1
    /\ messages' = Append(messages, Message(u, get_training_day(u), now + 1))

\* The row gets the time of the insert (server_default now()).
save_message(u, training_day) ==
    /\ now < horizon
    /\ now' = now + 1
    /\ messages' = Append(messages, Message(u, training_day, now + 1))

process_training(u) ==
    LET active_training == get_active_training(u)
        current_day     == get_training_day(u)
        testing_day     == get_testing_day(u)
        manual          == is_manual_test(u)
        current_round   == get_training_round(u)
        day_data        == get_course_data(testing_day)
        s               == [tr |-> trainings, usr |-> users[u]]
    IN
    IF active_training = 0 /\ users[u].current_day = 0
    THEN \* no training in progress
         /\ result' = TrainingResult(u, active_training, "not_started",
                                     [is_final |-> TRUE, pass_ |-> FALSE],
                                     0, 0, FALSE, 0, FALSE)
         /\ UNCHANGED <<trainings, users, messages, courses, now>>
    ELSE IF day_data = NULL
    THEN \* no course for the day under test
         /\ trainings' = mark_completed(s, active_training).tr
         /\ result' = TrainingResult(u, active_training, "no_course",
                                     [is_final |-> TRUE, pass_ |-> TRUE],
                                     current_day, current_day, TRUE,
                                     current_round, FALSE)
         /\ UNCHANGED <<users, messages, courses, now>>
    ELSE IF day_data = "teaching"
    THEN \* teaching day: passes by itself
         \E commit \in CommitOutcomes :
            LET after == advance_teaching(s, active_training, current_day, manual) IN
            /\ save_message(u, testing_day)
            /\ IF commit = "fails"
               THEN \* the turn is committed, the next commit raises
                    /\ result' = TrainingResult(u, active_training, "db_error",
                                                [is_final |-> FALSE, pass_ |-> FALSE],
                                                current_day, current_day, FALSE,
                                                current_round, FALSE)
                    /\ UNCHANGED <<trainings, users>>
               ELSE /\ trainings' = after.tr
                    /\ users' = [users EXCEPT ![u] = after.usr]
                    /\ result' = TrainingResult(u, active_training, "teaching",
                                     [is_final |-> TRUE, pass_ |-> TRUE],
                                     current_day,
                                     IF manual THEN current_day ELSE current_day + 1,
                                     FALSE, 0, FALSE)
            /\ UNCHANGED courses
    ELSE \* an exchange answered by generate_response
         \E oracle \in OracleOutcomes :
            LET new_round == current_round + 1
                called    == calls_oracle(testing_day)
            IN
            IF called /\ oracle.raises
            THEN \* the exception leaves process_training
                 /\ result' = TrainingResult(u, active_training, "error",
                                             [is_final |-> FALSE, pass_ |-> FALSE],
                                             current_day, current_day, FALSE,
                                             current_round, TRUE)
                 /\ UNCHANGED <<trainings, users, messages, courses, now>>
            ELSE /\ ~oracle.raises
                 /\ \E commit \in CommitOutcomes :
                    LET ai    == generate_response(testing_day, oracle)
                        after == advance(update_round(s, active_training, new_round),
                                         active_training, ai, current_day, manual)
                        moves == ai.is_final /\ ai.pass_ /\ ~manual
                    IN
                    /\ save_message(u, testing_day)
                    /\ IF commit = "fails"
                       THEN \* the turn is committed, the commit of _update_round raises
                            /\ result' = TrainingResult(u, active_training, "db_error",
                                            [is_final |-> FALSE, pass_ |-> FALSE],
                                            current_day, current_day, FALSE,
                                            current_round, called)
                            /\ UNCHANGED <<trainings, users>>
                       ELSE /\ trainings' = after.tr
                            /\ users' = [users EXCEPT ![u] = after.usr]
                            /\ result' = TrainingResult(u, active_training, "graded", ai,
                                    current_day,
                                    IF moves /\ current_day < MAX_TRAINING_DAY
                                    THEN current_day + 1 ELSE current_day,
                                    moves /\ ~(current_day < MAX_TRAINING_DAY),
                                    new_round, called)
                 /\ UNCHANGED courses

\* --------------------------------------------------- TrainingBatchService
\* The row of a trainee in a batch, 0 when the trainee is not in the batch.
\* Variant for C36: the lookup of the existing row finds nothing.
get_user_training_finds_nothing(u, b) == 0

get_user_training(u, b) ==
    IF \E i \in DOMAIN trainings :
            trainings[i].user_id = u /\ trainings[i].batch_id = b
    THEN CHOOSE i \in DOMAIN trainings :
            trainings[i].user_id = u /\ trainings[i].batch_id = b
    ELSE 0

add_user_to_batch(u, b, auto_start) ==
    /\ trainings' = IF get_user_training(u, b) # 0 THEN trainings
                    ELSE Append(trainings, UserTraining(u, b, auto_start))
    /\ result' = NoResult
    /\ UNCHANGED <<users, messages, courses, now>>

\* Variant for C22: starting a row pauses every other active row, whoever the
\* trainee.
start_training_pauses_everyone(i) ==
    /\ trainings' = [j \in DOMAIN trainings |->
                        IF j = i THEN [trainings[j] EXCEPT !.status = "active"]
                        ELSE IF trainings[j].status = "active"
                             THEN [trainings[j] EXCEPT !.status = "paused"]
                             ELSE trainings[j]]
    /\ result' = NoResult
    /\ UNCHANGED <<users, messages, courses, now>>

\* start_training (resume_training is the same call): the trainee's other
\* active rows are paused, then this row is made active.
start_training(i) ==
    /\ trainings' = [j \in DOMAIN trainings |->
                        IF j = i THEN [trainings[j] EXCEPT !.status = "active"]
                        ELSE IF /\ trainings[j].user_id = trainings[i].user_id
                                /\ trainings[j].status = "active"
                             THEN [trainings[j] EXCEPT !.status = "paused"]
                             ELSE trainings[j]]
    /\ result' = NoResult
    /\ UNCHANGED <<users, messages, courses, now>>

\* Variant for C20: pausing puts the row back to pending.
pause_training_to_pending(i) ==
    /\ trainings' = [trainings EXCEPT ![i].status = "pending"]
    /\ result' = NoResult
    /\ UNCHANGED <<users, messages, courses, now>>

pause_training(i) ==
    /\ trainings' = [trainings EXCEPT ![i].status = "paused"]
    /\ result' = NoResult
    /\ UNCHANGED <<users, messages, courses, now>>

restart_training(i) ==
    /\ trainings' = [trainings EXCEPT ![i].current_day = 0,
                                      ![i].current_round = 0,
                                      ![i].persona = NULL,
                                      ![i].status = "active"]
    /\ result' = NoResult
    /\ UNCHANGED <<users, messages, courses, now>>

\* ------------------------------------------------------- dashboard routes
\* update-training: the administrator sets the day of a row.
user_update_training(i, new_day) ==
    /\ trainings' = [trainings EXCEPT ![i].current_day = new_day,
                                      ![i].current_round = 0]
    /\ result' = NoResult
    /\ UNCHANGED <<users, messages, courses, now>>

\* send-training: the administrator sends the card of a day of a row.
user_send_training(i, send_day) ==
    /\ trainings' = [trainings EXCEPT ![i].current_day = send_day,
                                      ![i].current_round = 0]
    /\ result' = NoResult
    /\ UNCHANGED <<users, messages, courses, now>>

\* send-any-training: the card of any day with a chosen persona letter, on
\* the trainee's active row; without an active row only a text is sent.
user_send_any_training(u, day, persona) ==
    /\ trainings' = IF get_active_training(u) = 0 THEN trainings
                    ELSE [trainings EXCEPT
                              ![get_active_training(u)].current_day = day,
                              ![get_active_training(u)].current_round = 0,
                              ![get_active_training(u)].persona =
                                  IF persona = "A" THEN "A_experience"
                                  ELSE "B_experience"]
    /\ result' = NoResult
    /\ UNCHANGED <<users, messages, courses, now>>

\* ------------------------------------------------------------ PushService
\* send_training_opening (the start button): a persona is drawn and the
\* attempt watermark is set.
send_training_opening(i, random_persona) ==
    IF i \notin DOMAIN trainings
    THEN /\ result' = NoResult
         /\ UNCHANGED <<trainings, users, messages, courses, now>>
    ELSE /\ now < horizon
         /\ now' = now + 1
         /\ trainings' = [trainings EXCEPT ![i].persona = random_persona,
                                           ![i].attempt_started_at = now + 1]
         /\ result' = NoResult
         /\ UNCHANGED <<users, messages, courses>>

\* Variant for C34: the retry button works on a row of any status.
retry_training_any_status(i, random_persona) ==
    IF i \notin DOMAIN trainings
    THEN /\ result' = NoResult
         /\ UNCHANGED <<trainings, users, messages, courses, now>>
    ELSE /\ now < horizon
         /\ now' = now + 1
         /\ trainings' = [trainings EXCEPT ![i].current_round = 0,
                                           ![i].persona = random_persona,
                                           ![i].attempt_started_at = now + 1]
         /\ result' = NoResult
         /\ UNCHANGED <<users, messages, courses>>

\* retry_training (the retry button): only for an active row.
retry_training(i, random_persona) ==
    IF i \notin DOMAIN trainings \/ trainings[i].status # "active"
    THEN /\ result' = NoResult
         /\ UNCHANGED <<trainings, users, messages, courses, now>>
    ELSE /\ now < horizon
         /\ now' = now + 1
         /\ trainings' = [trainings EXCEPT ![i].current_round = 0,
                                           ![i].persona = random_persona,
                                           ![i].attempt_started_at = now + 1]
         /\ result' = NoResult
         /\ UNCHANGED <<users, messages, courses>>

\* What _send_push_message does with the opening line: the platform takes it,
\* or the call raises.
SendOutcomes == {"sent", "fails"}

PushReturn(status, reason, sent) == [status |-> status, reason |-> reason, sent |-> sent]

\* The dict send_training_opening returns, and whether the opening line went
\* out: an unknown id is refused before anything is written; an exception of
\* the send is caught after the commit.
send_training_opening_returns(i, send) ==
    IF i \notin DOMAIN trainings THEN PushReturn("error", "training_not_found", FALSE)
    ELSE IF send = "fails" THEN PushReturn("error", "exception", FALSE)
    ELSE PushReturn("success", "none", TRUE)

\* The dict retry_training returns, and whether the opening line went out.
retry_training_returns(i, send) ==
    IF i \notin DOMAIN trainings THEN PushReturn("error", "training_not_found", FALSE)
    ELSE IF trainings[i].status # "active" THEN PushReturn("error", "training_not_active", FALSE)
    ELSE IF send = "fails" THEN PushReturn("error", "exception", FALSE)
    ELSE PushReturn("success", "none", TRUE)

\* Variant for C35: the changes are committed only after the opening line went
\* out, a failed send leaves the row as it was.
push_retry_commits_last(i, random_persona, send) ==
    /\ IF send = "fails" /\ i \in DOMAIN trainings
       THEN /\ result' = NoResult
            /\ UNCHANGED <<trainings, users, messages, courses, now>>
       ELSE retry_training(i, random_persona)
    /\ push_result' = retry_training_returns(i, send)

\* A whole call of retry_training: the writes and their commit, then the send,
\* then the return.
push_retry(i, random_persona, send) ==
    /\ retry_training(i, random_persona)
    /\ push_result' = retry_training_returns(i, send)

\* A whole call of send_training_opening.
push_opening(i, random_persona, send) ==
    /\ send_training_opening(i, random_persona)
    /\ push_result' = send_training_opening_returns(i, send)

\* The day whose opening line the push service sends for a row: both
\* send_training_opening and retry_training pass the official day of the row to
\* get_opening_message.
opening_day(t) == t.current_day

\* startManualTest: an administrator has the trainee tested on a chosen day;
\* a persona is drawn, the watermark is set, the round is cleared and the
\* official day stays.
start_manual_test(i, day, random_persona) ==
    /\ now < horizon
    /\ now' = now + 1
    /\ trainings' = [trainings EXCEPT ![i].testing_day = day,
                                      ![i].current_round = 0,
                                      ![i].persona = random_persona,
                                      ![i].attempt_started_at = now + 1]
    /\ result' = NoResult
    /\ UNCHANGED <<users, messages, courses>>

\* ------------------------------------------------------ the specification
\* No request is being handled.
Idle == {}

\* The push service has not been called.
NoPush == [status |-> "none", reason |-> "none", sent |-> FALSE]

\* ---------------------------------------------------------------- AIResponse
\* An AIResponse (reply, is_final, pass, score), or the exception that left
\* the parser. A text is a sequence of tokens.
AIResponse(reply, is_final, pass_, score) ==
    [raises |-> FALSE, reply |-> reply, is_final |-> is_final, pass_ |-> pass_, score |-> score]

Raised ==
    [raises |-> TRUE, reply |-> <<>>, is_final |-> FALSE, pass_ |-> FALSE, score |-> 0]

\* No answer of the language model is being parsed.
NoParse == [content |-> <<>>, parsed |-> FALSE, response |-> Raised]

Init ==
    /\ trainings = <<>>
    /\ users = [u \in Users |-> User]
    /\ messages = <<>>
    /\ courses \in {EmptyCourses, SeededCourses}
    /\ now = 0
    /\ result = NoResult
    /\ horizon = MaxTime
    /\ log_order = "newest_first"
    /\ loop = Idle
    /\ parse = NoParse
    /\ push_result = NoPush

\* Each operation is a request served on its own; it leaves the surroundings.
AddUserToBatch ==
    /\ \E u \in Users, b \in Batches, auto_start \in BOOLEAN :
          add_user_to_batch(u, b, auto_start)
    /\ UNCHANGED surroundings

StartTraining ==
    /\ \E i \in DOMAIN trainings : start_training(i)
    /\ UNCHANGED surroundings

PauseTraining ==
    /\ \E i \in DOMAIN trainings : pause_training(i)
    /\ UNCHANGED surroundings

RestartTraining ==
    /\ \E i \in DOMAIN trainings : restart_training(i)
    /\ UNCHANGED surroundings

UserUpdateTraining ==
    /\ \E i \in DOMAIN trainings, new_day \in AdminDays :
          user_update_training(i, new_day)
    /\ UNCHANGED surroundings

UserSendTraining ==
    /\ \E i \in DOMAIN trainings, send_day \in AdminDays :
          user_send_training(i, send_day)
    /\ UNCHANGED surroundings

UserSendAnyTraining ==
    /\ \E u \in Users, day \in AdminDays, persona \in AdminPersonas :
          user_send_any_training(u, day, persona)
    /\ UNCHANGED surroundings

SendTrainingOpening ==
    /\ \E i \in DOMAIN trainings, p \in Persona : send_training_opening(i, p)
    /\ UNCHANGED surroundings

RetryTraining ==
    /\ \E i \in DOMAIN trainings, p \in Persona : retry_training(i, p)
    /\ UNCHANGED surroundings

StartManualTest ==
    /\ \E i \in DOMAIN trainings, day \in ManualDays, p \in Persona :
          start_manual_test(i, day, p)
    /\ UNCHANGED surroundings

ProcessTraining ==
    /\ \E u \in Users : process_training(u)
    /\ UNCHANGED surroundings

Next ==
    \/ AddUserToBatch
    \/ StartTraining
    \/ PauseTraining
    \/ RestartTraining
    \/ UserUpdateTraining
    \/ UserSendTraining
    \/ UserSendAnyTraining
    \/ SendTrainingOpening
    \/ RetryTraining
    \/ StartManualTest
    \/ ProcessTraining

Spec == Init /\ [][Next]_vars

\* ============================================================ properties
\* Helpers of the properties below; they read the columns directly.

\* The step is a call of process_training (result holds what it returned).
Processed == result'.op = "process_training"

\* The call was answered by generate_response or by the teaching auto-pass:
\* it carries a verdict on the day under test.
Verdict == Processed /\ result'.training # 0 /\ result'.outcome \in {"graded", "teaching"}

\* The training row the call read, before and after the call.
RowBefore == trainings[result'.training]

RowAfter == trainings'[result'.training]

\* dayUnderTest is set and differs from currentDay.
ManualRow(row) == row.testing_day # None /\ row.testing_day # row.current_day

\* dayUnderTest if set, else currentDay.
EffectiveDay(row) == IF row.testing_day # None THEN row.testing_day ELSE row.current_day

\* Every training row but the one the call read is as it was.
OtherRowsUnchanged ==
    /\ DOMAIN trainings' = DOMAIN trainings
    /\ \A i \in DOMAIN trainings : i # result'.training => trainings'[i] = trainings[i]

\* The step is one of the administrator's operations that set the day of a row.
DaySetByAdministrator ==
    RestartTraining \/ UserUpdateTraining \/ UserSendTraining \/ UserSendAnyTraining

\* ---------------------------------------------------------------------- C1
\* C1 as stated: over any sequence of operations the currentDay of a progress
\* record never decreases, and a call of processMessage changes it by 0 or by
\* exactly +1, the +1 only on a final pass that is not a manual test.
C1_DayNeverDecreases ==
    [][\A i \in DOMAIN trainings :
          /\ trainings'[i].current_day >= trainings[i].current_day
          /\ (Processed /\ trainings'[i].current_day # trainings[i].current_day) =>
                /\ result'.training = i
                /\ result'.is_final /\ result'.pass_
                /\ ~ManualRow(trainings[i])
                /\ trainings'[i].current_day = trainings[i].current_day + 1]_vars

\* C1 amended: a call of processMessage changes currentDay by 0 or by exactly
\* +1, the +1 only when the verdict is a final pass and the exchange is not a
\* manual test; every other change of currentDay (a decrease, a jump) is made
\* by restart_training or by the dashboard's update-training, send-training
\* or send-any-training.
C1_DayMovesByOne ==
    [][\A i \in DOMAIN trainings :
          trainings'[i].current_day # trainings[i].current_day =>
             IF Processed
             THEN /\ result'.training = i
                  /\ result'.is_final /\ result'.pass_
                  /\ ~ManualRow(trainings[i])
                  /\ trainings'[i].current_day = trainings[i].current_day + 1
             ELSE DaySetByAdministrator]_vars

\* An exam day was passed and the day moved on by one.
C1_Witness ==
    /\ result.op = "process_training" /\ result.outcome = "graded"
    /\ result.is_final /\ result.pass_
    /\ result.next_day = result.current_day + 1
    /\ trainings[result.training].current_day = result.next_day

C3_RoundZeroAfterFinal ==
    (/\ result.op = "process_training" /\ result.training # 0
     /\ result.outcome \in {"graded", "teaching"}
     /\ result.is_final)
        => trainings[result.training].current_round = 0

\* ---------------------------------------------------------------------- C4
\* The rows of the message log that are in the context of a trainee's next message.
ContextRows(u) == {h.msg : h \in {get_conversation_history(u)[k] :
                                      k \in DOMAIN get_conversation_history(u)}}

C5_PassAdvances ==
    [][(/\ Verdict /\ result'.is_final /\ result'.pass_
        /\ ~ManualRow(RowBefore)
        /\ EffectiveDay(RowBefore) < MAX_TRAINING_DAY) =>
          /\ RowAfter.current_day = RowBefore.current_day + 1
          /\ RowAfter.current_round = 0
          /\ RowAfter.testing_day = None
          /\ RowAfter.status = "active"
          /\ result'.next_day = RowBefore.current_day + 1
          /\ result'.is_completed = FALSE]_vars

\* An exam day below the maximum day was passed after at least one earlier
\* round, and the round is back at 0.
C5_Witness ==
    /\ result.op = "process_training" /\ result.outcome = "graded"
    /\ result.is_final /\ result.pass_
    /\ result.round_count > 1
    /\ result.current_day < MAX_TRAINING_DAY
    /\ result.next_day = result.current_day + 1
    /\ trainings[result.training].current_day = result.next_day
    /\ trainings[result.training].current_round = 0

\* ---------------------------------------------------------------------- C6
\* C6: a final fail (manual test or not) leaves currentRound = 0 and leaves
\* currentDay, dayUnderTest, persona, attemptStartedAt and status as they
\* were, so the next message is graded on the same effective day with the
\* same persona.
C6_FailKeepsPosition ==
    [][(Verdict /\ result'.is_final /\ ~result'.pass_) =>
          /\ RowAfter.current_round = 0
          /\ RowAfter.current_day = RowBefore.current_day
          /\ RowAfter.testing_day = RowBefore.testing_day
          /\ RowAfter.persona = RowBefore.persona
          /\ RowAfter.attempt_started_at = RowBefore.attempt_started_at
          /\ RowAfter.status = RowBefore.status
          /\ \A u \in Users :
                result'.user_id = u =>
                    /\ get_testing_day(u)' = get_testing_day(u)
                    /\ get_persona_letter(u)' = get_persona_letter(u)]_vars

\* A manual test was failed after an earlier round: the day under test is
\* still set and the round is back at 0.
C6_Witness ==
    /\ result.op = "process_training" /\ result.outcome = "graded"
    /\ result.is_final /\ ~result.pass_
    /\ result.round_count > 1
    /\ ManualRow(trainings[result.training])
    /\ trainings[result.training].persona # NULL
    /\ trainings[result.training].current_round = 0

\* ---------------------------------------------------------------------- C7
\* C7: startManualTest(trainee, d) with d different from currentDay leaves
\* currentDay, and a final pass of that manual test leaves dayUnderTest null,
\* currentRound 0 and currentDay as it was, so the next message is graded on
\* currentDay again.
C7_ManualPassKeepsDay ==
    [][/\ StartManualTest =>
             \A i \in DOMAIN trainings :
                 trainings'[i].current_day = trainings[i].current_day
       /\ (Verdict /\ result'.is_final /\ result'.pass_ /\ ManualRow(RowBefore)) =>
             /\ RowAfter.testing_day = None
             /\ RowAfter.current_round = 0
             /\ RowAfter.current_day = RowBefore.current_day
             /\ \A u \in Users :
                   result'.user_id = u =>
                       get_testing_day(u)' = RowBefore.current_day]_vars

\* The manual test of an exam day was passed after an earlier round.
C7_Witness ==
    /\ result.op = "process_training" /\ result.outcome = "graded"
    /\ result.is_final /\ result.pass_ /\ ~result.is_completed
    /\ result.round_count > 1
    /\ result.next_day = result.current_day
    /\ trainings[result.training].testing_day = None
    /\ trainings[result.training].current_round = 0
    /\ trainings[result.training].current_day = result.current_day

NeverStarted(u) ==
    \A i \in DOMAIN trainings :
        trainings[i].user_id = u => trainings[i].status = "pending"

\* C9: a message of a trainee with no progress record, or with a pending one,
\* is answered by the terminal "not yet enrolled" reply (final, not passed,
\* currentDay 0, roundCount 0) without an oracle call, without a new turn and
\* without a change of any progress record.
C9_NotEnrolledReply ==
    [][\A u \in Users :
          (Processed /\ result'.user_id = u /\ NeverStarted(u)) =>
              /\ result'.outcome = "not_started"
              /\ result'.is_final /\ ~result'.pass_
              /\ result'.current_day = 0 /\ result'.next_day = 0
              /\ result'.round_count = 0
              /\ ~result'.is_completed
              /\ ~result'.oracle_called
              /\ messages' = messages
              /\ trainings' = trainings
              /\ users' = users]_vars

\* A trainee with a pending record sent a message and got the reply.
C9_Witness ==
    /\ result.op = "process_training" /\ result.outcome = "not_started"
    /\ \E i \in DOMAIN trainings :
          /\ trainings[i].user_id = result.user_id
          /\ trainings[i].status = "pending"
    /\ NeverStarted(result.user_id)

\* --------------------------------------------------------------------- C10
\* C10: when the catalog has no scenario for the effective day, processMessage
\* returns a completion verdict (final, passed) without an oracle call and
\* without a new turn, and sets status = completed only if the exchange is
\* not a manual test: in a manual test the status stays active.
C10_NoCourseCompletes ==
    [][(/\ Processed /\ result'.training # 0
        /\ get_course_data(EffectiveDay(RowBefore)) = NULL) =>
          /\ result'.is_final /\ result'.pass_
          /\ ~result'.oracle_called
          /\ messages' = messages
          /\ RowAfter.status =
                 IF ManualRow(RowBefore) THEN "active" ELSE "completed"]_vars

\* --------------------------------------------------------------------- C11
\* C11: when the scenario of the effective day is of kind teaching, a call of
\* processMessage that returns never calls the oracle, gives a final pass,
\* logs exactly one turn tagged with the effective day and applies the
\* advance rule: currentRound 0, dayUnderTest cleared, currentDay + 1 unless
\* the exchange is a manual test, in which case currentDay stays.
C11_TeachingAutoPass ==
    [][(/\ Processed /\ result'.training # 0
        /\ get_course_data(EffectiveDay(RowBefore)) = "teaching"
        /\ result'.outcome # "db_error") =>
          /\ result'.outcome = "teaching"
          /\ ~result'.oracle_called
          /\ result'.is_final /\ result'.pass_
          /\ messages' = Append(messages,
                 Message(result'.user_id, EffectiveDay(RowBefore), now'))
          /\ RowAfter.current_round = 0
          /\ RowAfter.testing_day = None
          /\ RowAfter.current_day =
                 IF ManualRow(RowBefore) THEN RowBefore.current_day
                 ELSE RowBefore.current_day + 1
          /\ RowAfter.status = RowBefore.status
          /\ RowAfter.persona = RowBefore.persona]_vars

\* A teaching day was taken in the normal course, and the day moved on.
C11_Witness ==
    /\ result.op = "process_training" /\ result.outcome = "teaching"
    /\ result.next_day = result.current_day + 1
    /\ trainings[result.training].current_day = result.next_day
    /\ messages # <<>>
    /\ messages[Len(messages)].training_day = result.current_day

\* --------------------------------------------------------------------- C12
\* C12: a non-final verdict changes exactly one progress field: currentRound
\* becomes old currentRound + 1, which is the roundCount returned; currentDay,
\* dayUnderTest, persona, attemptStartedAt and status stay, whatever the value
\* of passed in the verdict.
C12_NonFinalCountsTheRound ==
    [][(Verdict /\ ~result'.is_final) =>
          /\ RowAfter = [RowBefore EXCEPT !.current_round = RowBefore.current_round + 1]
          /\ result'.round_count = RowBefore.current_round + 1
          /\ result'.next_day = RowBefore.current_day
          /\ ~result'.is_completed
          /\ OtherRowsUnchanged
          /\ users' = users]_vars

\* A second non-final verdict in a row, this one with passed = true.
C12_Witness ==
    /\ result.op = "process_training" /\ result.outcome = "graded"
    /\ ~result.is_final /\ result.pass_
    /\ result.round_count = 2
    /\ trainings[result.training].current_round = 2
    /\ trainings[result.training].current_day = result.current_day

\* --------------------------------------------------------------------- C13
\* C13: every call of processMessage that obtains a verdict (from the oracle
\* or from the teaching auto-pass) appends exactly one turn, tagged with the
\* effective day and not with the official currentDay, final verdict or not;
\* the log only grows and no operation changes or deletes a turn.
C13_OneTurnPerVerdict ==
    [][/\ Verdict =>
             messages' = Append(messages,
                 Message(result'.user_id, EffectiveDay(RowBefore), now'))
       /\ Len(messages') >= Len(messages)
       /\ \A k \in DOMAIN messages : messages'[k] = messages[k]]_vars

\* A non-final verdict in a manual test: the turn carries the day under test,
\* which is not the official day.
C13_Witness ==
    /\ result.op = "process_training" /\ result.outcome = "graded"
    /\ ~result.is_final
    /\ ManualRow(trainings[result.training])
    /\ messages # <<>>
    /\ messages[Len(messages)].training_day = trainings[result.training].testing_day
    /\ messages[Len(messages)].training_day # trainings[result.training].current_day

\* --------------------------------------------------------------------- C14
\* C14: when the oracle call raises, processMessage ends with an error and
\* the state is as before the call (no turn, currentRound not incremented,
\* currentDay, dayUnderTest, persona, status unchanged); and a progress write
\* of a graded message happens only after the verdict was obtained and the
\* turn was logged.
C14_OracleFailureLeavesState ==
    [][/\ (Processed /\ result'.outcome = "error") =>
             /\ result'.oracle_called
             /\ messages' = messages
             /\ trainings' = trainings
             /\ users' = users
       /\ (/\ Processed /\ result'.training # 0
           /\ get_course_data(EffectiveDay(RowBefore)) \notin {NULL, "teaching"}
           /\ get_day_data(EffectiveDay(RowBefore)) \notin {NULL, "teaching"}
           /\ trainings' # trainings) =>
             /\ result'.outcome = "graded"
             /\ result'.oracle_called
             /\ Len(messages') = Len(messages) + 1]_vars

\* The oracle raised in the middle of a round sequence: the round and the log
\* are those of the message before.
C14_Witness ==
    /\ result.op = "process_training" /\ result.outcome = "error"
    /\ result.round_count > 0
    /\ trainings[result.training].current_round = result.round_count
    /\ Len(messages) = result.round_count

\* --------------------------------------------------------------------- C15
\* C15: the log write and the progress write of a turn are atomic: also when
\* a call fails between the two, either the turn is in the log and the
\* progress update (round counter, advance rule) has been made, or neither;
\* no step leaves a turn logged that the round counter does not reflect.
C15_TurnAndProgressTogether ==
    [][Processed =>
          \/ /\ messages' = messages
             /\ result'.outcome \notin {"graded", "teaching"}
          \/ /\ Len(messages') = Len(messages) + 1
             /\ result'.outcome \in {"graded", "teaching"}
             /\ RowAfter.current_round \in {0, RowBefore.current_round + 1}]_vars

\* --------------------------------------------------------------------- C16
\* C16 as stated: processMessage never writes the persona, and the stored
\* persona of a record changes only through a dispatch operation that starts
\* a new attempt (start, manual test or the sending of a chosen day, retry).
C16_PersonaByDispatchOnly ==
    [][\A i \in DOMAIN trainings :
          trainings'[i].persona # trainings[i].persona =>
              /\ ~Processed
              /\ \/ SendTrainingOpening
                 \/ StartManualTest
                 \/ UserSendAnyTraining
                 \/ RetryTraining]_vars

\* C16 amended: processMessage never writes the persona; the stored persona
\* changes only through an operation that starts a new attempt (start,
\* manual test, send-any-training, retry) or through restart_training, which
\* clears it.
C16_PersonaFixedInAttempt ==
    [][\A i \in DOMAIN trainings :
          trainings'[i].persona # trainings[i].persona =>
              /\ ~Processed
              /\ \/ SendTrainingOpening
                 \/ StartManualTest
                 \/ UserSendAnyTraining
                 \/ RetryTraining
                 \/ (RestartTraining /\ trainings'[i].persona = NULL)]_vars

\* The third message of a round sequence was graded with the persona drawn
\* at the start of the attempt.
C16_Witness ==
    /\ result.op = "process_training" /\ result.outcome = "graded"
    /\ result.round_count >= 3
    /\ trainings[result.training].persona \in Persona
    /\ trainings[result.training].attempt_started_at # None
    /\ Len(get_conversation_history(result.user_id)) >= 4

\* --------------------------------------------------------------------- C17
\* C17: startAttempt (send_training_opening) sets persona to A or B, sets
\* attemptStartedAt to the current time and resets currentRound to 0, leaving
\* currentDay and status; the next message is graded as round 1 on an empty
\* context.
C17_StartAttempt ==
    [][\A i \in DOMAIN trainings, p \in Persona :
          send_training_opening(i, p) =>
              /\ trainings'[i].persona \in Persona
              /\ trainings'[i].attempt_started_at = now'
              /\ now' > now
              /\ trainings'[i].current_round = 0
              /\ trainings'[i].current_day = trainings[i].current_day
              /\ trainings'[i].status = trainings[i].status
              /\ \A u \in Users :
                    get_active_training(u)' = i =>
                        get_conversation_history(u)' = <<>>]_vars

\* --------------------------------------------------------------------- C18
\* C18: startManualTest leaves currentDay exactly as it was: an administrator
\* sending the scenario of an arbitrary day (send-training, send-any-training,
\* manual test) never overwrites the official currentDay of a record.
C18_SendingADayKeepsCurrentDay ==
    [][(StartManualTest \/ UserSendTraining \/ UserSendAnyTraining) =>
          \A i \in DOMAIN trainings :
              trainings'[i].current_day = trainings[i].current_day]_vars

C30_OpeningOfEffectiveDay ==
    [][\A i \in DOMAIN trainings, p \in Persona :
          /\ send_training_opening(i, p) \/ retry_training(i, p)
          /\ trainings[i].status = "active"
          /\ trainings' # trainings
          => opening_day(trainings'[i]) = EffectiveDay(trainings'[i])]_vars

\* ===================================================== one trainee, two batches
\* A trainee enrolled in up to two batches, driven by the operations of
\* TrainingBatchService and by messages.
BatchMaxTime == 2

TwoBatches == {1, 2}

BatchInit ==
    /\ trainings = <<>>
    /\ users = [u \in Users |-> User]
    /\ messages = <<>>
    /\ courses \in {EmptyCourses, SeededCourses}
    /\ now = 0
    /\ result = NoResult
    /\ horizon = BatchMaxTime
    /\ log_order = "newest_first"
    /\ loop = Idle
    /\ parse = NoParse
    /\ push_result = NoPush

AddUserToAnyBatch ==
    /\ \E u \in Users, b \in TwoBatches, auto_start \in BOOLEAN :
          add_user_to_batch(u, b, auto_start)
    /\ UNCHANGED surroundings

BatchNext ==
    \/ AddUserToAnyBatch
    \/ StartTraining
    \/ PauseTraining
    \/ RestartTraining
    \/ ProcessTraining

BatchSpec == BatchInit /\ [][BatchNext]_vars

\* The active records of a trainee.
ActiveRows(u) ==
    {i \in DOMAIN trainings :
        trainings[i].user_id = u /\ trainings[i].status = "active"}

\* --------------------------------------------------------------------- C28
\* C28: after any sequence of add_user_to_batch, start_training,
\* pause_training, resume_training, restart_training and message processing a
\* trainee has at most one training record with status active.
C28_AtMostOneActive ==
    \A u \in Users : Cardinality(ActiveRows(u)) <= 1

\* --------------------------------------------------------------------- C29
\* C29: process_training writes only to a record that is active at the start
\* of the call: a record that is pending, paused or completed is left as it
\* is by every message, and the oracle is called only for a trainee who has an
\* active record.
C29_OnlyActiveRowsWritten ==
    [][Processed =>
          /\ \A i \in DOMAIN trainings :
                trainings[i].status # "active" => trainings'[i] = trainings[i]
          /\ DOMAIN trainings' = DOMAIN trainings
          /\ \A u \in Users :
                result'.user_id = u /\ ActiveRows(u) = {} =>
                    /\ ~result'.oracle_called
                    /\ result'.outcome = "not_started"
                    /\ messages' = messages]_vars

\* A message was graded on the active record of a trainee who also has a
\* paused record, and a message of a trainee with only a paused record was
\* answered.
C29_Witness ==
    \/ /\ result.outcome = "graded"
       /\ \E i \in DOMAIN trainings :
             i # result.training /\ trainings[i].status = "paused"
    \/ /\ result.outcome = "not_started"
       /\ \E i \in DOMAIN trainings : trainings[i].status = "paused"

\* ============================================================== two trainees
\* Two trainees enrolled in the same batch, each with messages, the start and
\* retry buttons, manual tests and the start / pause of the dashboard.
TwoMaxTime == 2

TwoUsers == {1, 2}

TwoInit ==
    /\ trainings = <<UserTraining(1, 1, TRUE), UserTraining(2, 1, FALSE)>>
    /\ users = [u \in TwoUsers |-> User]
    /\ messages = <<>>
    /\ courses = SeededCourses
    /\ now = 0
    /\ result = NoResult
    /\ horizon = TwoMaxTime
    /\ log_order = "newest_first"
    /\ loop = Idle
    /\ parse = NoParse
    /\ push_result = NoPush

ProcessTrainingOfEither ==
    /\ \E u \in TwoUsers : process_training(u)
    /\ UNCHANGED surroundings

TwoNext ==
    \/ StartTraining
    \/ PauseTraining
    \/ SendTrainingOpening
    \/ RetryTraining
    \/ StartManualTest
    \/ ProcessTrainingOfEither

TwoSpec == TwoInit /\ [][TwoNext]_vars

\* The step is an operation on trainee a: a message of a, or a start, a
\* start button, a retry button or a manual test on a record of a.
OperationOn(a) ==
    \/ process_training(a)
    \/ \E i \in DOMAIN trainings :
          /\ trainings[i].user_id = a
          /\ \/ start_training(i)
             \/ \E p \in Persona : send_training_opening(i, p)
             \/ \E p \in Persona : retry_training(i, p)
             \/ \E day \in ManualDays, p \in Persona : start_manual_test(i, day, p)

\* Nothing of trainee b changes: no record, no logged turn, no legacy column.
Untouched(b) ==
    /\ DOMAIN trainings' = DOMAIN trainings
    /\ \A i \in DOMAIN trainings :
          trainings[i].user_id = b => trainings'[i] = trainings[i]
    /\ SelectSeq(messages', LAMBDA m : m.user_id = b)
           = SelectSeq(messages, LAMBDA m : m.user_id = b)
    /\ users'[b] = users[b]

\* --------------------------------------------------------------------- C22
\* C22: an operation on one trainee (a message, start, retry, manual test)
\* leaves every progress record and every logged turn of every other trainee
\* unchanged, in every interleaving of the two trainees' operations.
C22_OtherTraineeUntouched ==
    [][\A a \in TwoUsers : OperationOn(a) =>
          \A b \in TwoUsers \ {a} : Untouched(b)]_vars

\* Both trainees have an active record and a logged turn, and the last
\* operation was a graded message of the first trainee.
C22_Witness ==
    /\ result.outcome \in {"graded", "teaching"}
    /\ result.user_id = 1
    /\ \A i \in DOMAIN trainings : trainings[i].status = "active"
    /\ \E k \in DOMAIN messages : messages[k].user_id = 2

\* ======================================================= a training to its end
\* One enrolled trainee from day 0 on, with messages, start / resume, pause
\* and restart. The clock is long enough for a whole training; the
\* hypotheses of a terminating training are that the days left always fit
\* into the time left (failures, open rounds and restarts are bounded), that a
\* paused or pending record is started again, and that a pass verdict that
\* stays possible is given in the end.
LiveMaxTime == 16

\* The messages a record still needs fit into the time left.
InTime ==
    \A i \in DOMAIN trainings :
        \/ trainings[i].status = "completed"
        \/ now + (MAX_TRAINING_DAY + 1 - trainings[i].current_day) <= horizon

LiveInit ==
    /\ trainings = <<UserTraining(1, 1, FALSE)>>
    /\ users = [u \in Users |-> User]
    /\ messages = <<>>
    /\ courses = SeededCourses
    /\ now = 0
    /\ result = NoResult
    /\ horizon = LiveMaxTime
    /\ log_order = "newest_first"
    /\ loop = Idle
    /\ parse = NoParse
    /\ push_result = NoPush

LiveStart == StartTraining /\ InTime'

LivePause == PauseTraining /\ InTime'

LiveRestart == RestartTraining /\ InTime'

LiveProcess == ProcessTraining /\ InTime'

\* The message was answered by a final pass verdict.
Passes ==
    /\ result'.outcome \in {"graded", "teaching"}
    /\ result'.is_final /\ result'.pass_

LiveNext ==
    \/ LiveStart
    \/ LivePause
    \/ LiveRestart
    \/ LiveProcess

LiveSpec ==
    /\ LiveInit
    /\ [][LiveNext]_vars
    /\ WF_vars(LiveStart)
    /\ SF_vars(LiveProcess /\ Passes)

LongLog == 11

LongSteps == 2

LongInit ==
    /\ \E n \in 0..LongLog :
          /\ trainings = <<[UserTraining(1, 1, TRUE) EXCEPT !.current_day = 1,
                                                            !.current_round = n]>>
          /\ messages = [k \in 1..n |-> Message(1, 1, k)]
          /\ now = n
          /\ horizon = n + LongSteps
    /\ users = [u \in Users |-> User]
    /\ courses = SeededCourses
    /\ result = NoResult
    /\ log_order \in {"newest_first", "oldest_first"}
    /\ loop = Idle
    /\ parse = NoParse
    /\ push_result = NoPush

LongNext ==
    \/ ProcessTraining
    \/ SendTrainingOpening
    \/ RetryTraining

LongSpec == LongInit /\ [][LongNext]_vars

\* --------------------------------------------------------------------- C26
\* The turns of the current attempt of the effective day, oldest first, cut
\* to the most recent ones.
ContextOfTheSpec(u) ==
    LET row == trainings[get_active_training(u)] IN
    ToHistory(LastN(SelectRows(1, u, EffectiveDay(row), row.attempt_started_at),
                    HistoryLimit))

\* C26: the conversation context given to the oracle is the list of the
\* current attempt's turns of the effective day, oldest first, each turn giving
\* its user message and then its AI reply, cut to the 10 most recent exchanges;
\* with no attemptStartedAt it is built from all turns of the day.
C26_ContextOldestFirstCapped ==
    \A u \in Users :
        get_active_training(u) # 0 =>
            get_conversation_history(u) = ContextOfTheSpec(u)

\* --------------------------------------------------------------------- C27
\* C27: there is no round ceiling: every non-final verdict, whatever the round
\* reached, stores the round after it (one more than before), is returned as
\* non-final, and leaves currentDay, dayUnderTest and status, so the trainee
\* is neither failed nor passed.
C27_NoRoundCeiling ==
    [][(Verdict /\ result'.outcome = "graded" /\ ~result'.is_final) =>
          /\ RowAfter.current_round = RowBefore.current_round + 1
          /\ result'.round_count = RowBefore.current_round + 1
          /\ RowAfter.current_day = RowBefore.current_day
          /\ RowAfter.testing_day = RowBefore.testing_day
          /\ RowAfter.status = RowBefore.status
          /\ ~result'.is_completed]_vars

\* A non-final verdict was returned in a round past max_rounds, and the
\* record is still active on its day.
C27_Witness ==
    /\ result.outcome = "graded"
    /\ ~result.is_final
    /\ result.round_count > max_rounds + 1
    /\ trainings[result.training].current_round = result.round_count
    /\ trainings[result.training].status = "active"

\* ================================================= the parser of the answers
\* The raw answer of the language model is a text of at most MaxContentLen
\* tokens:
\*   "{"  "}"   a brace
\*   "R"        the pair  "reply": "hi"
\*   "Rb"       the pair  "reply": "a}b"   (a closing brace inside the string)
\*   "F"        the pairs , "is_final": true, "pass": true, "score": 90
\*   "7"        a number
\*   "w"        a word of prose
MaxContentLen == 4

Tokens == {"{", "}", "R", "Rb", "F", "7", "w"}

Contents == UNION {[1..n -> Tokens] : n \in 0..MaxContentLen}

\* The first position from `from` on whose token is in `set`, or 0.
FirstIn(s, from, set) ==
    IF \E k \in from..Len(s) : s[k] \in set
    THEN CHOOSE k \in from..Len(s) :
            s[k] \in set /\ \A l \in from..(k - 1) : s[l] \notin set
    ELSE 0

\* re.search(r'\{[\s\S]*?"reply"[\s\S]*?\}', content): from the first opening
\* brace, through the first "reply" after it, to the first closing brace after
\* that, wherever that brace stands; cut says that it stands inside the string
\* of the last token, which the match cuts in two.
json_match(content) ==
    LET i == FirstIn(content, 1, {"{"})
        j == IF i = 0 THEN 0 ELSE FirstIn(content, i + 1, {"R", "Rb"})
        k == IF j = 0 THEN 0
             ELSE IF content[j] = "Rb" THEN j
             ELSE FirstIn(content, j + 1, {"}", "Rb"})
    IN  IF k = 0 THEN [found |-> FALSE, text |-> <<>>, cut |-> FALSE]
        ELSE [found |-> TRUE, text |-> SubSeq(content, i, k), cut |-> content[k] = "Rb"]

\* The text is one JSON object: braces around nothing, or around a reply pair
\* and the pairs that follow it.
IsObject(text) ==
    /\ Len(text) >= 2
    /\ text[1] = "{" /\ text[Len(text)] = "}"
    /\ Len(text) > 2 =>
          /\ text[2] \in {"R", "Rb"}
          /\ \A k \in 3..(Len(text) - 1) : text[k] = "F"

\* json.loads(text): the value of a JSON text (an object or a number), or
\* JSONDecodeError.
json_loads(text, cut) ==
    IF ~cut /\ IsObject(text)
    THEN [ok |-> TRUE, is_dict |-> TRUE,
          has_reply |-> Len(text) > 2,
          reply |-> IF Len(text) > 2 THEN <<text[2]>> ELSE <<>>,
          is_final |-> \E k \in 1..Len(text) : text[k] = "F"]
    ELSE IF ~cut /\ text = <<"7">>
    THEN [ok |-> TRUE, is_dict |-> FALSE, has_reply |-> FALSE, reply |-> <<>>, is_final |-> FALSE]
    ELSE [ok |-> FALSE, is_dict |-> FALSE, has_reply |-> FALSE, reply |-> <<>>, is_final |-> FALSE]

\* AIResponse.from_dict(data): data.get(key, default) for each key; a value
\* that is not a dict has no get.
from_dict(data) ==
    IF ~data.is_dict THEN Raised
    ELSE AIResponse(IF data.has_reply THEN data.reply ELSE <<>>,
                    data.is_final, data.is_final,
                    IF data.is_final THEN 90 ELSE 0)

\* AIService._parse_response
parse_response(content) ==
    LET m      == json_match(content)
        first  == json_loads(m.text, m.cut)
        second == json_loads(content, FALSE)
    IN  IF m.found /\ first.ok THEN from_dict(first)
        ELSE IF second.ok THEN from_dict(second)
        ELSE AIResponse(content, FALSE, FALSE, 0)

ParserInit ==
    /\ trainings = <<>>
    /\ users = [u \in Users |-> User]
    /\ messages = <<>>
    /\ courses = SeededCourses
    /\ now = 0
    /\ result = NoResult
    /\ horizon = MaxTime
    /\ log_order = "newest_first"
    /\ loop = Idle
    /\ push_result = NoPush
    /\ \E content \in Contents :
          parse = [content |-> content, parsed |-> FALSE, response |-> Raised]

\* generate_response hands the text of the answer to the parser.
ParseResponse ==
    /\ ~parse.parsed
    /\ parse' = [parse EXCEPT !.parsed = TRUE,
                              !.response = parse_response(parse.content)]
    /\ UNCHANGED <<trainings, users, messages, courses, now, result, horizon, log_order, loop, push_result>>

ParserNext == ParseResponse

ParserSpec == ParserInit /\ [][ParserNext]_vars

\* The JSON objects a text contains, each as the pair of its first and last
\* position.
ObjectsIn(content) ==
    {seg \in (1..Len(content)) \X (1..Len(content)) :
        seg[1] < seg[2] /\ IsObject(SubSeq(content, seg[1], seg[2]))}

\* --------------------------------------------------------------------- C24
\* C24: for a text that contains no JSON object the parser returns the
\* verdict isFinal = false, passed = false, score = 0 whose reply is the text
\* itself, unchanged.
C24_NoObjectGivesTheText ==
    (parse.parsed /\ ObjectsIn(parse.content) = {}) =>
        parse.response = AIResponse(parse.content, FALSE, FALSE, 0)

\* --------------------------------------------------------------------- C25
\* C25: for a text that contains a well-formed JSON object with a reply key,
\* alone or inside prose, the parser returns the verdict made of the values of
\* such an object, a missing key taking its default.
C25_ObjectInProseIsRead ==
    LET with_reply == {seg \in ObjectsIn(parse.content) : seg[2] - seg[1] >= 2} IN
    (parse.parsed /\ with_reply # {}) =>
        \E seg \in with_reply :
            LET text == SubSeq(parse.content, seg[1], seg[2]) IN
            parse.response =
                AIResponse(<<text[2]>>,
                           \E k \in 1..Len(text) : text[k] = "F",
                           \E k \in 1..Len(text) : text[k] = "F",
                           IF \E k \in 1..Len(text) : text[k] = "F" THEN 90 ELSE 0)

\* ================================================== the webhook's event loop
\* The requests of one trainee (messages, presses of the start and of the retry
\* button) reach line_webhook, a coroutine of the single event loop of the
\* server. A request is taken up when the coroutine resumes after reading the
\* body and stays in `loop` until its handler returns; round_seen is the round
\* the handler reads when it starts.
ConcMaxTime == 3

\* Concurrent deliveries the platform has in flight.
Deliveries == {1, 2}

\* Variant for C23: the handler yields to the event loop while it waits (for
\* the language model, for the database), so other requests are taken up.
event_loop_yields == TRUE

\* After `await request.body()` the coroutine runs handler.handle to its end
\* without another await: the loop takes up no request while a handler runs.
event_loop_free == loop = Idle

Request(id, kind, training) ==
    [id |-> id, kind |-> kind, training |-> training,
     round_seen |-> trainings[training].current_round]

begin(id, kind, training) ==
    /\ event_loop_free
    /\ \A req \in loop : req.id # id
    /\ loop' = loop \cup {Request(id, kind, training)}
    /\ UNCHANGED <<trainings, users, messages, courses, now, result, horizon, log_order, parse, push_result>>

ConcInit ==
    /\ trainings = <<[UserTraining(1, 1, TRUE) EXCEPT !.current_day = 1]>>
    /\ users = [u \in Users |-> User]
    /\ messages = <<>>
    /\ courses = SeededCourses
    /\ now = 0
    /\ result = NoResult
    /\ horizon = ConcMaxTime
    /\ log_order = "newest_first"
    /\ loop = Idle
    /\ parse = NoParse
    /\ push_result = NoPush

BeginMessage ==
    \E id \in Deliveries, i \in DOMAIN trainings : begin(id, "message", i)

BeginStart ==
    \E id \in Deliveries, i \in DOMAIN trainings : begin(id, "start", i)

BeginRetry ==
    \E id \in Deliveries, i \in DOMAIN trainings : begin(id, "retry", i)

\* handle_text_message -> handle_message -> process_training, to its return.
FinishMessage ==
    \E req \in loop :
        /\ req.kind = "message"
        /\ process_training(trainings[req.training].user_id)
        /\ loop' = loop \ {req}
        /\ UNCHANGED <<horizon, log_order, parse, push_result>>

\* handle_postback, action start_training.
FinishStart ==
    \E req \in loop, p \in Persona :
        /\ req.kind = "start"
        /\ send_training_opening(req.training, p)
        /\ loop' = loop \ {req}
        /\ UNCHANGED <<horizon, log_order, parse, push_result>>

\* handle_postback, action retry_training.
FinishRetry ==
    \E req \in loop, p \in Persona :
        /\ req.kind = "retry"
        /\ retry_training(req.training, p)
        /\ loop' = loop \ {req}
        /\ UNCHANGED <<horizon, log_order, parse, push_result>>

ConcNext ==
    \/ BeginMessage
    \/ BeginStart
    \/ BeginRetry
    \/ FinishMessage
    \/ FinishStart
    \/ FinishRetry

ConcSpec == ConcInit /\ [][ConcNext]_vars

C36_AddIsIdempotent ==
    /\ [](\A i, j \in DOMAIN trainings :
             (/\ trainings[i].user_id = trainings[j].user_id
              /\ trainings[i].batch_id = trainings[j].batch_id) => i = j)
    /\ [][\A u \in Users, b \in TwoBatches, auto_start \in BOOLEAN :
            (/\ add_user_to_batch(u, b, auto_start)
             /\ \E i \in DOMAIN trainings :
                   trainings[i].user_id = u /\ trainings[i].batch_id = b)
            => trainings' = trainings]_vars

\* The trainee is in both batches, and the record of the first batch has
\* moved on since it was created: it is past day 0 or paused.
C36_Witness ==
    /\ Len(trainings) = 2
    /\ trainings[1].batch_id # trainings[2].batch_id
    /\ trainings[1].current_day > 0 \/ trainings[1].status = "paused"

\* --------------------------------------------------------------------- C33
\* C33: restart_training leaves the record at currentDay = 0, currentRound = 0,
\* persona unset and status active, the effective day of the next message is
\* 0, and where that message is graded by the oracle its context holds no
\* turn.
C33_RestartFromTheStart ==
    [][\A i \in DOMAIN trainings :
          restart_training(i) =>
              /\ trainings'[i].current_day = 0
              /\ trainings'[i].current_round = 0
              /\ trainings'[i].persona = NULL
              /\ trainings'[i].status = "active"
              /\ EffectiveDay(trainings'[i]) = 0
              /\ \A u \in Users :
                    (/\ get_active_training(u)' = i
                     /\ get_course_data(EffectiveDay(trainings'[i]))
                            \notin {NULL, "teaching"})
                    => get_conversation_history(u)' = <<>>]_vars

\* ========================================================= the push service
\* One trainee in one batch with the two buttons, whose calls return a result
\* and whose opening line may fail to go out, next to enrolment, start, pause,
\* the day set by an administrator and messages.
PushMaxTime == 2

\* The training ids a postback can carry: those of the table and one that is
\* in no row.
PushIds == DOMAIN trainings \cup {Len(trainings) + 1}

PushInit ==
    /\ trainings = <<>>
    /\ users = [u \in Users |-> User]
    /\ messages = <<>>
    /\ courses = SeededCourses
    /\ now = 0
    /\ result = NoResult
    /\ horizon = PushMaxTime
    /\ log_order = "newest_first"
    /\ loop = Idle
    /\ parse = NoParse
    /\ push_result = NoPush

PushRetry ==
    /\ \E i \in PushIds, p \in Persona, send \in SendOutcomes : push_retry(i, p, send)
    /\ UNCHANGED <<horizon, log_order, loop, parse>>

PushOpening ==
    /\ \E i \in PushIds, p \in Persona, send \in SendOutcomes : push_opening(i, p, send)
    /\ UNCHANGED <<horizon, log_order, loop, parse>>

PushNext ==
    \/ AddUserToBatch
    \/ StartTraining
    \/ PauseTraining
    \/ UserUpdateTraining
    \/ ProcessTraining
    \/ PushRetry
    \/ PushOpening

PushSpec == PushInit /\ [][PushNext]_vars

\* --------------------------------------------------------------------- C34
\* C34: retry_training for a training id that is in no record, or for a record
\* that is not active, returns an error (training_not_found,
\* training_not_active), sends no opening line and leaves every record as it
\* was.
C34_RetryRefused ==
    [][\A i \in PushIds, p \in Persona, send \in SendOutcomes :
          (/\ push_retry(i, p, send)
           /\ (i \notin DOMAIN trainings \/ trainings[i].status # "active"))
          => /\ push_result'.status = "error"
             /\ push_result'.reason = IF i \in DOMAIN trainings
                                      THEN "training_not_active"
                                      ELSE "training_not_found"
             /\ ~push_result'.sent
             /\ trainings' = trainings]_vars

\* The retry button was refused for a record that is paused or completed and
\* that carries a persona and a watermark of an earlier attempt.
C34_Witness ==
    /\ push_result.reason = "training_not_active"
    /\ \E i \in DOMAIN trainings :
          /\ trainings[i].status \in {"paused", "completed"}
          /\ trainings[i].persona # NULL
          /\ trainings[i].attempt_started_at # None

\* --------------------------------------------------------------------- C35
\* C35: when the opening line of retry_training or of send_training_opening
\* fails to go out, the call returns an error and the new persona and
\* attemptStartedAt (and for retry currentRound = 0) are in the record all the
\* same: they were committed before the send.
C35_CommittedBeforeTheSend ==
    [][\A i \in DOMAIN trainings, p \in Persona :
          /\ (push_retry(i, p, "fails") /\ trainings[i].status = "active") =>
                /\ push_result'.status = "error" /\ ~push_result'.sent
                /\ trainings'[i].current_round = 0
                /\ trainings'[i].persona = p
                /\ now' > now
                /\ trainings'[i].attempt_started_at = now'
          /\ push_opening(i, p, "fails") =>
                /\ push_result'.status = "error" /\ ~push_result'.sent
                /\ trainings'[i].persona = p
                /\ now' > now
                /\ trainings'[i].attempt_started_at = now']_vars

\* A call returned the error of a failed send and the record carries the
\* persona and the watermark that call wrote, after a round had been counted.
C35_Witness ==
    /\ push_result.reason = "exception"
    /\ \E i \in DOMAIN trainings :
          /\ trainings[i].attempt_started_at = now
          /\ trainings[i].persona # NULL
          /\ \E k \in DOMAIN messages : messages[k].created_at < now

\* --------------------------------------------------------------------- C32
\* The trainee's record that was completed by a pass on the maximum day, when
\* the trainee has no active record.
CompletedTraining(u) ==
    {i \in DOMAIN trainings :
        /\ trainings[i].user_id = u
        /\ trainings[i].status = "completed"
        /\ trainings[i].current_day = MAX_TRAINING_DAY
        /\ \A j \in DOMAIN trainings :
               trainings[j].user_id = u => trainings[j].status # "active"}

\* C32: once a trainee's training is completed by a final pass on the maximum
\* day, get_progress_summary reports is_completed = true and the current day
\* of that training, and a further message of the trainee is not answered with
\* the "not yet enrolled" reply.
C32_CompletedIsReported ==
    /\ [](\A u \in Users : \A i \in CompletedTraining(u) :
             /\ get_progress_summary(u).is_completed
             /\ get_progress_summary(u).current_day = trainings[i].current_day)
    /\ [][\A u \in Users :
            (Processed /\ result'.user_id = u /\ CompletedTraining(u) # {})
            => result'.outcome # "not_started"]_vars

\* --------------------------------------------------------------------- C31
\* C31: when a message is graded by the oracle, the conversation context
\* assembled for it holds as many exchanges as the stored currentRound (at
\* most 10), a user message and an AI reply each: the turns of the
\* round-sequence in progress and no others.
C31_ContextMatchesRound ==
    [][\A u \in Users :
          (Verdict /\ result'.user_id = u /\ result'.outcome = "graded"
              /\ result'.oracle_called)
          => Len(get_conversation_history(u))
                 = 2 * (IF RowBefore.current_round > HistoryLimit
                        THEN HistoryLimit ELSE RowBefore.current_round)]_vars

====
